---------------------------- MODULE Spec2Model ----------------------------
(***************************************************************************)
(* mochad_dispatch: a bridge that keeps a TCP connection to the mochad     *)
(* status daemon, parses its "Rx RFSEC" lines and POSTs every parsed event *)
(* to a REST entry point.  The module models src/mochad_dispatch.py: the   *)
(* start-up check of the entry point, MochadClient.worker (connect, sleep, *)
(* give up, read, parse, spawn) and MochadClient.dispatch_message.         *)
(*                                                                         *)
(* Text is a sequence of one-character strings.  Bytes read from the       *)
(* socket are sequences of byte tokens: an ASCII byte is written as its    *)
(* character, a byte above 0x7F as "0xNN".                                 *)
(***************************************************************************)
EXTENDS Integers, Sequences, FiniteSets, TLC

(***************************************************************************)
(* Bounds of the model (not program constants).                            *)
(***************************************************************************)
\* Number of inputs the environment gives in one run: advances of the clock,
\* lines arriving on the stream or a failure of it, outcomes of HTTP calls.
MaxEvents == 4

(***************************************************************************)
(* Program constants.                                                      *)
(***************************************************************************)
\* asyncio.sleep(1)
SleepSecs == 1
\* (time.time() - self.reconnect_time) > 60
ReconnectLimit == 60
\* response.status != 200
HttpOk == 200
\* sys.exit(1) in errordie
ErrorExit == 1
\* the interpreter's exit status when the script runs off its last line
NormalExit == 0

Min(a, b) == IF a < b THEN a ELSE b

(***************************************************************************)
(* Python text primitives.                                                 *)
(***************************************************************************)
\* s[a:b] for 0 <= a <= b: the slice is clamped to the text, never an error.
Slice(s, a, b) ==
    LET hi == Min(b, Len(s))
    IN  IF a + 1 > hi THEN <<>> ELSE SubSeq(s, a + 1, hi)

\* s[a:]
SliceFrom(s, a) == Slice(s, a, Len(s))

Whitespace == {" ", "\t", "\n", "\r", "\f"}

\* str.rstrip(): the text up to its last character that is no whitespace.
rstrip(s) ==
    LET keep == {i \in 1..Len(s) : s[i] \notin Whitespace}
    IN  IF keep = {} THEN <<>>
        ELSE SubSeq(s, 1, CHOOSE i \in keep : \A j \in keep : j <= i)

\* Byte tokens above 0x7F that occur in the modelled input.
LeadBytes == {"0xC3"}
ContinuationBytes == {"0xA9"}
InvalidBytes == {"0xFF"}
HighBytes == LeadBytes \cup ContinuationBytes \cup InvalidBytes

\* The code point of a two-byte UTF-8 sequence.
TwoByteChar(lead, cont) == "U+00E9"

\* bytes.decode("utf-8"), strict: [ok |-> TRUE, text |-> the characters], or
\* ok = FALSE where Python raises UnicodeDecodeError: at a byte that is no
\* UTF-8, a lead byte without its continuation, a continuation without lead.
decode(b) ==
    LET n == Len(b)
        wellFormed ==
            \A i \in 1..n :
                /\ b[i] \notin InvalidBytes
                /\ b[i] \in LeadBytes =>
                       i < n /\ b[i + 1] \in ContinuationBytes
                /\ b[i] \in ContinuationBytes =>
                       i > 1 /\ b[i - 1] \in LeadBytes
        merged == [i \in 1..n |-> IF b[i] \in LeadBytes
                                  THEN TwoByteChar(b[i], b[i + 1])
                                  ELSE b[i]]
        NotContinuation(c) == c \notin ContinuationBytes
    IN  IF wellFormed
        THEN [ok |-> TRUE, text |-> SelectSeq(merged, NotContinuation)]
        ELSE [ok |-> FALSE, text |-> <<>>]

(***************************************************************************)
(* MochadClient.parse_mochad_line                                          *)
(***************************************************************************)
RxRfsec == <<"R", "x", " ", "R", "F", "S", "E", "C">>

\* A parse with the address taken one character too early.
parse_mochad_line_M(line) ==
    IF Slice(line, 15, 23) # RxRfsec
    THEN [addr |-> <<>>, func |-> <<>>]
    ELSE [addr |-> Slice(line, 29, 37), func |-> SliceFrom(line, 45)]

parse_mochad_line(line) ==
    IF Slice(line, 15, 23) # RxRfsec
    THEN [addr |-> <<>>, func |-> <<>>]
    ELSE [addr |-> Slice(line, 30, 38), func |-> SliceFrom(line, 45)]


(***************************************************************************)
(* urllib.parse.urlparse(url).scheme: the text before the first ':',       *)
(* lower-cased, when it is not empty and holds only scheme characters.     *)
(***************************************************************************)
UpperLetters ==
    <<"A", "B", "C", "D", "E", "F", "G", "H", "I", "J", "K", "L", "M",
      "N", "O", "P", "Q", "R", "S", "T", "U", "V", "W", "X", "Y", "Z">>
LowerLetters ==
    <<"a", "b", "c", "d", "e", "f", "g", "h", "i", "j", "k", "l", "m",
      "n", "o", "p", "q", "r", "s", "t", "u", "v", "w", "x", "y", "z">>
Digits == {"0", "1", "2", "3", "4", "5", "6", "7", "8", "9"}
Range(f) == {f[i] : i \in DOMAIN f}
SchemeChars ==
    Range(UpperLetters) \cup Range(LowerLetters) \cup Digits \cup {"+", "-", "."}

\* str.lower() of one character.
LowerChar(c) ==
    IF c \in Range(UpperLetters)
    THEN LowerLetters[CHOOSE i \in DOMAIN UpperLetters : UpperLetters[i] = c]
    ELSE c

\* str.find(':'), 0-based; -1 when there is none.
FindColon(url) ==
    IF \E i \in DOMAIN url : url[i] = ":"
    THEN (CHOOSE i \in DOMAIN url :
             /\ url[i] = ":"
             /\ \A j \in 1..(i - 1) : url[j] # ":") - 1
    ELSE -1

UrlScheme(url) ==
    LET i == FindColon(url)
    IN  IF i > 0 /\ \A j \in 1..i : url[j] \in SchemeChars
        THEN [j \in 1..i |-> LowerChar(url[j])]
        ELSE <<>>

Http == <<"h", "t", "t", "p">>
Https == <<"h", "t", "t", "p", "s">>

\* A check that lets every URL with a scheme through.
SchemeAccepted_M(scheme) == scheme # <<>>

\* not parse_res.scheme == 'https' and not parse_res.scheme == 'http'
SchemeAccepted(scheme) == scheme = Https \/ scheme = Http

\* A constructor that appends the separator to every entry point.
NormalizeEntryPoint_M(ep) == ep \o <<"/">>

\* MochadClient.__init__: ensure entry point ends with /
\* (args.entry_point is not empty here: an empty URL has no scheme).
NormalizeEntryPoint(ep) ==
    IF ep[Len(ep)] # "/" THEN ep \o <<"/">> ELSE ep

(***************************************************************************)
(* Inputs: the entry points given on the command line and the lines the    *)
(* status daemon sends.                                                    *)
(***************************************************************************)
EpHttpSlash ==
    <<"h", "t", "t", "p", ":", "/", "/", "h", "/", "a", "p", "i", "/">>
EpUpperNoSlash ==
    <<"H", "T", "T", "P", "S", ":", "/", "/", "h", "/", "a", "p", "i">>
EpFtp ==
    <<"f", "t", "p", ":", "/", "/", "e", "x", "a", "m", "p", "l", "e", ".",
      "c", "o", "m", "/">>
EpNoScheme ==
    <<"h", "/", "a", "p", "i">>
EpEmpty == <<>>
EntryPoints == {EpHttpSlash, EpUpperNoSlash, EpFtp, EpNoScheme, EpEmpty}

\* 09/22 15:39:07 Rx RFSEC Addr: 21:26:80 Func: Contact_alert_min_DS10A
LineContact ==
    <<"0", "9", "/", "2", "2", " ", "1", "5", ":", "3", "9", ":", "0", "7",
      " ", "R", "x", " ", "R", "F", "S", "E", "C", " ", "A", "d", "d", "r",
      ":", " ", "2", "1", ":", "2", "6", ":", "8", "0", " ", "F", "u", "n",
      "c", ":", " ", "C", "o", "n", "t", "a", "c", "t", "_", "a", "l", "e",
      "r", "t", "_", "m", "i", "n", "_", "D", "S", "1", "0", "A", "\n">>
\* an RFSEC report of another device, ended by CR LF
LineArm ==
    <<"1", "2", "/", "3", "1", " ", "2", "3", ":", "5", "9", ":", "5", "9",
      " ", "R", "x", " ", "R", "F", "S", "E", "C", " ", "A", "d", "d", "r",
      ":", " ", "C", "6", ":", "1", "B", ":", "0", "0", " ", "F", "u", "n",
      "c", ":", " ", "A", "r", "m", "_", "K", "R", "1", "0", "A", "\r",
      "\n">>
\* another message class of the daemon
LineRf ==
    <<"0", "9", "/", "2", "2", " ", "1", "5", ":", "3", "9", ":", "0", "7",
      " ", "R", "x", " ", "R", "F", " ", "H", "o", "u", "s", "e", "U", "n",
      "i", "t", ":", " ", "A", "1", " ", "F", "u", "n", "c", ":", " ", "O",
      "n", "\n">>
\* an RFSEC report cut short after "Func: "
LineNoFunc ==
    <<"0", "9", "/", "2", "2", " ", "1", "5", ":", "3", "9", ":", "0", "7",
      " ", "R", "x", " ", "R", "F", "S", "E", "C", " ", "A", "d", "d", "r",
      ":", " ", "2", "1", ":", "2", "6", ":", "8", "0", " ", "F", "u", "n",
      "c", ":", " ", "\n">>
\* a line of another message class holding a two-byte character
LineAccent ==
    <<"0", "9", "/", "2", "2", " ", "1", "5", ":", "3", "9", ":", "0", "7",
      " ", "T", "x", " ", "P", "L", " ", "H", "o", "u", "s", "e", ":", " ",
      "C", "a", "f", "0xC3", "0xA9", "\n">>
\* a line holding a byte that is no UTF-8
LineBadByte ==
    <<"0", "9", "/", "2", "2", " ", "1", "5", ":", "3", "9", ":", "0", "7",
      " ", "R", "x", " ", "R", "F", "S", "E", "C", " ", "A", "d", "d", "r",
      ":", " ", "2", "1", ":", "2", "6", ":", "8", "0", " ", "F", "u", "n",
      "c", ":", " ", "0xFF", "\n">>
Lines == {LineContact, LineArm, LineRf, LineNoFunc, LineAccent, LineBadByte}

\* Lines for the parser alone: reports and another message class, a report
\* under another timestamp, a report whose fields stand one character early,
\* and each of them cut short after every number of characters.
Restamp(text, other) == SubSeq(other, 1, 15) \o SubSeq(text, 16, Len(text))
Prefixes(text) == {SubSeq(text, 1, n) \o <<"\n">> : n \in 0..Len(text)}
ParseTexts ==
    {rstrip(LineContact), rstrip(LineArm), rstrip(LineRf),
     Restamp(rstrip(LineContact), LineArm), Tail(rstrip(LineContact))}
ParseLines == UNION {Prefixes(text) : text \in ParseTexts}

\* Status codes the REST server answers with, and the faults of the HTTP call.
Statuses == {200, 404}
HttpFaults == {"ClientOSError"}

\* The clock reading (time.time()) when the process starts.
StartTime == 1
\* How far the clock advances in one step: a short and a long wait.
ShortTick == 1
LongTick == 59
TickSteps == {ShortTick, LongTick}

(***************************************************************************)
(* State.                                                                  *)
(***************************************************************************)
VARIABLES
    args_entry_point,   \* args.entry_point, as given on the command line
    entry_point,        \* self.entry_point (<<>> until the client is built)
    pc,                 \* where the process is: "main", the worker's
                        \* "sleeping" / "connecting" / "reading", or ended:
                        \* "exit_config" / "exit_exhausted" / "exit_exception"
    exit_code,          \* the exit status (NoExit while running)
    stderr,             \* what errordie wrote
    now,                \* the clock
    events,             \* how many inputs the environment has given
    reconnect_time,     \* self.reconnect_time
    sleep_start,        \* when the pending asyncio.sleep(1) was started
    log,                \* what the worker gave to the logger, in order
    tasks,              \* the dispatch_message tasks, in spawn order
    hist                \* history of the run, for stating the properties

vars ==
    <<args_entry_point, entry_point, pc, exit_code, stderr, now, events,
      reconnect_time, sleep_start, log, tasks, hist>>

NoExit == -1
WorkerPcs == {"sleeping", "connecting", "reading"}
ExitPcs == {"exit_config", "exit_exhausted", "exit_exception"}

\* The event loop runs the worker and the tasks while run_until_complete
\* has not returned.
LoopRunning == pc \in WorkerPcs

ErrCouldNotReconnect == "error: Could not reconnect after 60s"
WarnCouldNotConnect == "warn: Could not connect to mochad. Retrying"
WarnLostConnection == "warn: Lost connection to mochad. Retrying."
InfoConnected == "info: Connected to mochad"

Init ==
    /\ args_entry_point \in EntryPoints
    /\ entry_point = <<>>
    /\ pc = "main"
    /\ exit_code = NoExit
    /\ stderr = <<>>
    /\ now = StartTime
    /\ events = 0
    /\ reconnect_time = 0
    /\ sleep_start = 0
    /\ log = <<>>
    /\ tasks = <<>>
    /\ hist = [attempts |-> 0, attempt_time |-> 0, last_fail |-> 0,
               in_episode |-> FALSE, episode_start |-> 0, last_ok |-> 0,
               expected |-> <<>>, line |-> <<>>,
               parsed |-> [addr |-> <<>>, func |-> <<>>]]

(***************************************************************************)
(* The decisions of MochadClient.worker.                                   *)
(***************************************************************************)
\* A retry that does not wait.
NeedsSleep_M(rt) == FALSE

\* if self.reconnect_time:
NeedsSleep(rt) == rt # 0

\* A give-up ten times as late.
GiveUp_M(t, rt) == (t - rt) > 10 * ReconnectLimit

\* if (time.time() - self.reconnect_time) > 60:
GiveUp(t, rt) == (t - rt) > ReconnectLimit

\* A failure handler that restarts the clock at every failure.
ClockAfterFailure_M(rt, t) == t

\* if not self.reconnect_time: self.reconnect_time = time.time()
ClockAfterFailure(rt, t) == IF rt = 0 THEN t ELSE rt

\* A failure handler that warns at every failed attempt.
WarnOnFailure_M(rt) == TRUE

\* if not self.reconnect_time: ... logger.warn(...)
WarnOnFailure(rt) == rt = 0

\* A connect that leaves the clock as it is.
ClockAfterConnect_M(rt) == rt

\* self.reconnect_time = 0
ClockAfterConnect(rt) == 0

\* A closure that leaves the clock as it is.
ClockAfterClosure_M(rt, t) == rt

\* self.reconnect_time = time.time(), after the read loop
ClockAfterClosure(rt, t) == t

\* A spawn for every line that yields an address or a function.
ShouldDispatch_M(p) == p.addr # <<>> \/ p.func # <<>>

\* if addr and func:
ShouldDispatch(p) == p.addr # <<>> /\ p.func # <<>>

\* A read loop that waits for the dispatches it has spawned.
AwaitsDispatch_M(ts) == \E i \in DOMAIN ts : ts[i].phase # "done"

\* asyncio.Task(...) is neither yielded from nor kept: the read loop goes on
\* to readline() whatever the tasks ts are doing.
AwaitsDispatch(ts) == FALSE

\* The read loop is at readline() and nothing keeps it from taking a line.
ReadReady == pc = "reading" /\ ~AwaitsDispatch(tasks)

\* asyncio.Task(self.dispatch_message(addr, func)): a task that has not run.
NewTask(addr, func) ==
    [addr |-> addr, func |-> func, phase |-> "spawned", spawned_at |-> now,
     dispatch_time |-> 0, sent |-> <<>>, status |-> 0, caught |-> "",
     fail_msg |-> <<>>, logged |-> <<>>]

\* The top of the connection loop with clock rt: sleep first when
\* reconnecting, else call connect() at once.
LoopTop(rt, h) ==
    IF NeedsSleep(rt)
    THEN /\ pc' = "sleeping"
         /\ sleep_start' = now
         /\ hist' = h
    ELSE /\ pc' = "connecting"
         /\ sleep_start' = sleep_start
         /\ hist' = [h EXCEPT !.attempts = @ + 1, !.attempt_time = now]

(***************************************************************************)
(* __main__: validate the entry point, then build the client and run the   *)
(* worker; errordie ends the process with status 1.                        *)
(***************************************************************************)
Main ==
    /\ pc = "main"
    /\ IF ~SchemeAccepted(UrlScheme(args_entry_point))
       THEN /\ stderr' = <<"error: unsupported URL scheme",
                           UrlScheme(args_entry_point)>>
            /\ exit_code' = ErrorExit
            /\ pc' = "exit_config"
            /\ UNCHANGED <<entry_point, reconnect_time, sleep_start, hist>>
       ELSE /\ entry_point' = NormalizeEntryPoint(args_entry_point)
            /\ reconnect_time' = 0
            /\ LoopTop(0, hist)
            /\ UNCHANGED <<stderr, exit_code>>
    /\ UNCHANGED <<args_entry_point, now, events, log, tasks>>

(***************************************************************************)
(* worker: asyncio.sleep(1) is over; give up or connect.                   *)
(***************************************************************************)
SleepDone ==
    /\ pc = "sleeping"
    /\ now - sleep_start >= SleepSecs
    /\ IF GiveUp(now, reconnect_time)
       THEN /\ log' = Append(log, ErrCouldNotReconnect)
            /\ pc' = "exit_exhausted"
            /\ exit_code' = NormalExit
            /\ UNCHANGED hist
       ELSE /\ pc' = "connecting"
            /\ hist' = [hist EXCEPT !.attempts = @ + 1, !.attempt_time = now]
            /\ UNCHANGED <<log, exit_code>>
    /\ UNCHANGED <<args_entry_point, entry_point, stderr, now, events,
                   reconnect_time, sleep_start, tasks>>

(***************************************************************************)
(* worker: connect() raised OSError.                                       *)
(***************************************************************************)
ConnectFails ==
    /\ pc = "connecting"
    /\ reconnect_time' = ClockAfterFailure(reconnect_time, now)
    /\ log' = IF WarnOnFailure(reconnect_time)
              THEN Append(log, WarnCouldNotConnect)
              ELSE log
    /\ LoopTop(reconnect_time',
               [hist EXCEPT !.last_fail = now,
                            !.in_episode = TRUE,
                            !.episode_start =
                                IF hist.in_episode THEN @ ELSE now])
    /\ UNCHANGED <<args_entry_point, entry_point, exit_code, stderr, now,
                   events, tasks>>

(***************************************************************************)
(* worker: connect() returned.                                             *)
(***************************************************************************)
ConnectSucceeds ==
    /\ pc = "connecting"
    /\ reconnect_time' = ClockAfterConnect(reconnect_time)
    /\ log' = Append(log, InfoConnected)
    /\ pc' = "reading"
    /\ hist' = [hist EXCEPT !.in_episode = FALSE, !.last_ok = now]
    /\ UNCHANGED <<args_entry_point, entry_point, exit_code, stderr, now,
                   events, sleep_start, tasks>>

\* The event a line reports, by the layout the daemon documents
\*   09/22 15:39:07 Rx RFSEC Addr: 21:26:80 Func: Contact_alert_min_DS10A
\* (characters counted from 1: the tag is 16..23, the address 31..38, the
\* label 46..end): one event for a well-formed RFSEC line, none otherwise.
WellFormed(text) ==
    /\ Len(text) >= 46
    /\ SubSeq(text, 16, 23) = RxRfsec

Reported(raw) ==
    LET d == decode(raw)
        text == rstrip(d.text)
    IN  IF d.ok /\ WellFormed(text)
        THEN <<[addr |-> SubSeq(text, 31, 38),
                func |-> SubSeq(text, 46, Len(text))]>>
        ELSE <<>>

(***************************************************************************)
(* worker: readline() returned a line.  Undecodable bytes raise            *)
(* UnicodeDecodeError, which nothing catches: the worker ends with it.     *)
(* What the daemon library does with an exception of its action is not     *)
(* decided here, so the exit status is either.                             *)
(***************************************************************************)
WorkerRaises ==
    /\ pc' = "exit_exception"
    /\ exit_code' \in {NormalExit, ErrorExit}

\* line.decode("utf-8").rstrip() and parse_mochad_line of it, for each line
\* the daemon may send, with the event the line reports.
Received ==
    [raw \in Lines \cup ParseLines |->
        LET d == decode(raw)
            text == rstrip(d.text)
        IN  [ok |-> d.ok, text |-> text, parsed |-> parse_mochad_line(text),
             reported |-> Reported(raw)]]

ReadLine(raw) ==
    /\ ReadReady
    /\ events < MaxEvents
    /\ events' = events + 1
    /\ LET d == Received[raw]
           text == d.text
           p == d.parsed
       IN  IF ~d.ok
           THEN /\ WorkerRaises
                /\ hist' = [hist EXCEPT !.expected = @ \o d.reported]
                /\ UNCHANGED tasks
           ELSE /\ hist' = [hist EXCEPT !.expected = @ \o d.reported,
                                        !.line = text, !.parsed = p]
                /\ tasks' = IF ShouldDispatch(p)
                            THEN Append(tasks, NewTask(p.addr, p.func))
                            ELSE tasks
                /\ UNCHANGED <<pc, exit_code>>
    /\ UNCHANGED <<args_entry_point, entry_point, stderr, now,
                   reconnect_time, sleep_start, log>>

(***************************************************************************)
(* worker: readline() returned b'': the stream is closed.                  *)
(***************************************************************************)
ReadEof ==
    /\ pc = "reading"
    /\ log' = Append(log, WarnLostConnection)
    /\ reconnect_time' = ClockAfterClosure(reconnect_time, now)
    /\ LoopTop(reconnect_time',
               [hist EXCEPT !.last_fail = now,
                            !.in_episode = TRUE,
                            !.episode_start = now])
    /\ UNCHANGED <<args_entry_point, entry_point, exit_code, stderr, now,
                   events, tasks>>

(***************************************************************************)
(* worker: readline() raised (the connection was reset): nothing catches   *)
(* it in the read loop.                                                    *)
(***************************************************************************)
ReadRaises ==
    /\ pc = "reading"
    /\ events < MaxEvents
    /\ events' = events + 1
    /\ WorkerRaises
    /\ UNCHANGED <<args_entry_point, entry_point, stderr, now,
                   reconnect_time, sleep_start, log, tasks, hist>>

(***************************************************************************)
(* Time passes while the loop waits.                                       *)
(***************************************************************************)
Tick(d) ==
    /\ LoopRunning
    /\ events < MaxEvents
    /\ now' = now + d
    /\ events' = events + 1
    /\ UNCHANGED <<args_entry_point, entry_point, pc, exit_code, stderr,
                   reconnect_time, sleep_start, log, tasks, hist>>

(***************************************************************************)
(* MochadClient.dispatch_message, one task per parsed event.  A task runs  *)
(* only while the event loop runs.                                         *)
(***************************************************************************)
\* datetime.now(pytz.UTC).isoformat() and urllib.parse.quote: the instant,
\* formatted and then percent-encoded (neither is the number itself).
IsoFormat(t) == [iso8601_utc |-> t]
Quote(x) == [percent_encoded |-> x]

StatusText(status) ==
    CASE status = 200 -> "200"
      [] status = 404 -> "404"

\* aiohttp.post("{}{}".format(self.entry_point, addr), data=post_data,
\*              headers=headers)
Request(t, time) ==
    [method |-> "POST",
     url |-> entry_point \o t.addr,
     content_type |-> "application/x-www-form-urlencoded",
     dispatch_time |-> Quote(IsoFormat(time)),
     func |-> t.func]

\* A status check that takes only a server error as a failure.
StatusFailMsg_M(status) ==
    IF status >= 500
    THEN <<"HTTP status {}", StatusText(status)>>
    ELSE <<>>

\* if response.status != 200: fail_msg = "HTTP status {}".format(...)
StatusFailMsg(status) ==
    IF status # HttpOk THEN <<"HTTP status {}", StatusText(status)>> ELSE <<>>

\* fail_msg = "Caught exception: {}".format(e)
ExceptionFailMsg(e) == <<"Caught exception: {}", e>>

\* A task that sends the request again after a failure.
Finish_M(t, msg) ==
    IF msg # <<>> /\ Len(t.sent) < 2
    THEN [t EXCEPT !.phase = "posting",
                   !.sent = Append(@, Request(t, t.dispatch_time))]
    ELSE [t EXCEPT !.phase = "done", !.fail_msg = msg]

\* The end of dispatch_message with fail_msg = msg:
\* if fail_msg != '': self.logger.info("dispatch failed: ...")
Finish(t, msg) ==
    [t EXCEPT !.phase = "done",
              !.fail_msg = msg,
              !.logged = IF msg # <<>>
                         THEN Append(@, [level |-> "info",
                                         text |-> "dispatch failed",
                                         cause |-> msg,
                                         time |-> IsoFormat(t.dispatch_time),
                                         addr |-> t.addr,
                                         func |-> t.func])
                         ELSE @]

\* A handler that lets the exception out of the task.
OnException_M(t, e) == [t EXCEPT !.phase = "raised", !.caught = e]

\* except Exception as e: ... and on to the end of dispatch_message
OnException(t, e) == Finish([t EXCEPT !.caught = e], ExceptionFailMsg(e))

\* Task i goes on to t; an outcome of its HTTP call is an input.
TaskStep(i, t, inputs) ==
    /\ events + inputs <= MaxEvents
    /\ events' = events + inputs
    /\ tasks' = [tasks EXCEPT ![i] = t]
    /\ UNCHANGED <<args_entry_point, entry_point, pc, exit_code, stderr, now,
                   reconnect_time, sleep_start, log, hist>>

\* A dispatch stamped with the time its line was parsed.
DispatchTime_M(t, clock) == t.spawned_at

\* dispatch_time = datetime.now(pytz.UTC), the first statement of the task
DispatchTime(t, clock) == clock

\* The task runs for the first time: takes the time, sends the request.
DispatchStart(i) ==
    /\ LoopRunning
    /\ tasks[i].phase = "spawned"
    /\ LET time == DispatchTime(tasks[i], now)
       IN  TaskStep(i, [tasks[i] EXCEPT
                           !.phase = "posting",
                           !.dispatch_time = time,
                           !.sent = Append(@, Request(tasks[i], time))],
                    0)

\* aiohttp.post returned a response.
DispatchResponse(i, status) ==
    /\ LoopRunning
    /\ tasks[i].phase = "posting"
    /\ TaskStep(i, [tasks[i] EXCEPT !.phase = "releasing",
                                    !.status = status,
                                    !.fail_msg = StatusFailMsg(status)],
                1)

\* aiohttp.post raised.
DispatchPostRaises(i, e) ==
    /\ LoopRunning
    /\ tasks[i].phase = "posting"
    /\ TaskStep(i, OnException(tasks[i], e), 1)

\* response.release() returned.
DispatchReleased(i) ==
    /\ LoopRunning
    /\ tasks[i].phase = "releasing"
    /\ TaskStep(i, Finish(tasks[i], tasks[i].fail_msg), 1)

\* response.release() raised.
DispatchReleaseRaises(i, e) ==
    /\ LoopRunning
    /\ tasks[i].phase = "releasing"
    /\ TaskStep(i, OnException(tasks[i], e), 1)

Next ==
    \/ Main
    \/ SleepDone
    \/ ConnectFails
    \/ ConnectSucceeds
    \/ \E raw \in Lines : ReadLine(raw)
    \/ ReadEof
    \/ ReadRaises
    \/ \E d \in TickSteps : Tick(d)
    \/ \E i \in DOMAIN tasks : DispatchStart(i)
    \/ \E i \in DOMAIN tasks, status \in Statuses : DispatchResponse(i, status)
    \/ \E i \in DOMAIN tasks, e \in HttpFaults : DispatchPostRaises(i, e)
    \/ \E i \in DOMAIN tasks : DispatchReleased(i)
    \/ \E i \in DOMAIN tasks, e \in HttpFaults : DispatchReleaseRaises(i, e)

Spec == Init /\ [][Next]_vars

(***************************************************************************)
(* The parser on its own: the worker has connected at its first attempt    *)
(* and reads one line, any of ParseLines.                                  *)
(***************************************************************************)
InitParse ==
    /\ args_entry_point = EpHttpSlash
    /\ entry_point = NormalizeEntryPoint(args_entry_point)
    /\ pc = "reading"
    /\ exit_code = NoExit
    /\ stderr = <<>>
    /\ now = StartTime
    /\ events = 0
    /\ reconnect_time = 0
    /\ sleep_start = 0
    /\ log = <<InfoConnected>>
    /\ tasks = <<>>
    /\ hist = [attempts |-> 1, attempt_time |-> StartTime, last_fail |-> 0,
               in_episode |-> FALSE, episode_start |-> 0,
               last_ok |-> StartTime, expected |-> <<>>, line |-> <<>>,
               parsed |-> [addr |-> <<>>, func |-> <<>>]]

NextParse == \E raw \in ParseLines : events = 0 /\ ReadLine(raw)

SpecParse == InitParse /\ [][NextParse]_vars

(***************************************************************************)
(* The worker against a daemon that never accepts a connection: from the   *)
(* start of the process, or after the stream of a first connection has     *)
(* closed, every attempt fails.  Time passes while the worker sleeps; the  *)
(* event loop resumes the worker when its sleep is over and when connect() *)
(* has failed, hence the fairness.                                         *)
(***************************************************************************)
InitRetry ==
    \/ Init /\ SchemeAccepted(UrlScheme(args_entry_point))
    \/ InitParse

SleepTick(d) ==
    /\ pc = "sleeping"
    /\ now - sleep_start < SleepSecs
    /\ now' = now + d
    /\ UNCHANGED <<args_entry_point, entry_point, pc, exit_code, stderr,
                   events, reconnect_time, sleep_start, log, tasks, hist>>

NextRetry ==
    \/ Main
    \/ ReadEof
    \/ SleepDone
    \/ ConnectFails
    \/ \E d \in TickSteps : SleepTick(d)

SpecRetry == InitRetry /\ [][NextRetry]_vars /\ WF_vars(NextRetry)

(***************************************************************************)
(* Properties.                                                             *)
(***************************************************************************)
Last(q) == q[Len(q)]
Exhausted == pc = "exit_exhausted"
EventsOf(ts) == [i \in DOMAIN ts |-> [addr |-> ts[i].addr, func |-> ts[i].func]]

\* C1: no connection attempt is started once more than 60 s have passed
\* since the reconnect clock was set; the worker then logs "Could not
\* reconnect after 60s" and stops for good: nothing of the process (no
\* attempt, read or spawn) can happen after that.
C1_NoAttemptPastLimit ==
    /\ (pc = "connecting" /\ reconnect_time # 0)
           => hist.attempt_time - reconnect_time <= ReconnectLimit
    /\ Exhausted =>
           /\ now - reconnect_time > ReconnectLimit
           /\ log # <<>> /\ Last(log) = ErrCouldNotReconnect
           /\ ~ENABLED Next

\* The worker gave up after at least one retry.
C1_Witness == Exhausted /\ hist.attempts >= 2

\* C2: a successful connection resets the clock, and the budget of an episode
\* runs from that episode's own first failure or stream closure: while
\* connected the clock is unset, in an episode it holds the episode's start,
\* a retry is made only within 60 s of that start and the worker gives up
\* only more than 60 s after it, hence more than 60 s after the last
\* successful connection.
C2_FreshBudgetPerEpisode ==
    /\ pc = "reading" => reconnect_time = 0
    /\ hist.in_episode => reconnect_time = hist.episode_start
    /\ (pc = "connecting" /\ hist.in_episode)
           => hist.attempt_time - hist.episode_start <= ReconnectLimit
    /\ Exhausted =>
           /\ now - hist.episode_start > ReconnectLimit
           /\ hist.last_ok # 0 => now - hist.last_ok > ReconnectLimit

\* A retry in a second episode, more than 60 s after the process started
\* and after an earlier episode of failed attempts.
C2_Witness ==
    /\ pc = "connecting"
    /\ hist.in_episode
    /\ hist.last_ok # 0
    /\ \E k \in DOMAIN log : log[k] = WarnCouldNotConnect
    /\ hist.attempt_time - StartTime > ReconnectLimit

\* C3: a connection attempt that follows a failure or a stream closure starts
\* at least 1 s after it; only the first attempt of the process, made with
\* the clock unset, starts without a wait.
C3_WaitBeforeRetry ==
    pc = "connecting" =>
        IF hist.last_fail # 0
        THEN hist.attempt_time - hist.last_fail >= SleepSecs
        ELSE hist.attempts = 1 /\ reconnect_time = 0

\* A retry under way after a failure.
C3_Witness ==
    /\ pc = "connecting"
    /\ hist.last_fail # 0
    /\ hist.attempts >= 2

\* C4: the dispatches spawned are, in order, exactly the events of the
\* well-formed RFSEC lines read so far, each with the address and function
\* of its own line; a line that is not one spawns nothing.
C4_OneDispatchPerReport == EventsOf(tasks) = hist.expected

\* Two reports of different devices read on two connections, with a line that
\* reports nothing among the three lines read.
C4_Witness ==
    /\ Len(tasks) = 2
    /\ tasks[1].addr # tasks[2].addr
    /\ tasks[1].spawned_at < tasks[2].spawned_at
    /\ \E k \in DOMAIN log : log[k] = WarnLostConnection
    /\ \A i \in DOMAIN tasks : tasks[i].phase = "spawned"
    /\ now = StartTime + ShortTick
    /\ events = 4

\* C5: the worker ends only by reconnect exhaustion, and the process
\* otherwise only by a configuration error at start-up: no failure of a
\* read and no content of a line ends it.
C5_OnlyExhaustionEndsWorker ==
    pc \in ExitPcs => pc \in {"exit_exhausted", "exit_config"}

\* C6: a process that ends by reconnect exhaustion, like one that ends by a
\* configuration error, has a nonzero exit status.  (That nothing else ends
\* the process is the statement of C5.)
C6_NonzeroExitOnExhaustion ==
    pc \in {"exit_exhausted", "exit_config"} => exit_code # NormalExit

\* The entry points whose scheme is http or https.
HttpEntryPoints == {EpHttpSlash, EpUpperNoSlash}

\* C7: with an entry point whose scheme is not http or https the process
\* ends at start-up with a message and a nonzero status, having started no
\* connection attempt and no dispatch; with http or https the worker is
\* started.
C7_BadSchemeDiesBeforeNetwork ==
    pc # "main" =>
        IF args_entry_point \in HttpEntryPoints
        THEN pc # "exit_config" /\ stderr = <<>> /\ hist.attempts >= 1
        ELSE /\ pc = "exit_config"
             /\ exit_code \notin {NoExit, NormalExit}
             /\ stderr # <<>>
             /\ hist.attempts = 0
             /\ tasks = <<>>

\* ftp://example.com/ was rejected.
C7_Witness == pc = "exit_config" /\ args_entry_point = EpFtp

Failed(t) == t.phase = "done" /\ t.fail_msg # <<>>

\* One log line naming the cause, the timestamp, the address and the function.
LoggedOnce(t) ==
    /\ Len(t.logged) = 1
    /\ t.logged[1].level = "info"
    /\ t.logged[1].cause = t.fail_msg
    /\ t.logged[1].time = IsoFormat(t.dispatch_time)
    /\ t.logged[1].addr = t.addr
    /\ t.logged[1].func = t.func

C9_AtMostOnce ==
    \A i \in DOMAIN tasks :
        Len(tasks[i].sent) = IF tasks[i].phase = "spawned" THEN 0 ELSE 1

\* A dispatch that failed, having sent its one request.
C9_Witness ==
    \E i \in DOMAIN tasks : Failed(tasks[i]) /\ Len(tasks[i].sent) = 1

\* C10: a step of a dispatch, a failing one included, changes that dispatch
\* only: not the worker's position, the reconnect clock, the pending sleep,
\* the worker's log or the exit status, and no other dispatch; and it ends in
\* an outcome, never in an exception leaving the task.
C10_DispatchFailureContained ==
    [][(tasks' # tasks /\ Len(tasks') = Len(tasks)) =>
          /\ UNCHANGED <<pc, exit_code, reconnect_time, sleep_start, log, hist>>
          /\ \E i \in DOMAIN tasks :
                 \A j \in DOMAIN tasks \ {i} : tasks'[j] = tasks[j]
          /\ \A i \in DOMAIN tasks : tasks'[i].phase # "raised"]_vars

\* One dispatch has failed by an exception while another holds a 200
\* response and the worker still reads from its connection.
C10_Witness ==
    /\ pc = "reading"
    /\ reconnect_time = 0
    /\ \E i, j \in DOMAIN tasks :
           /\ i # j
           /\ Failed(tasks[i])
           /\ tasks[i].caught # ""
           /\ tasks[j].phase = "releasing"
           /\ tasks[j].status = HttpOk
           /\ tasks[j].fail_msg = <<>>

\* The dispatches that have not come to an outcome.
Unresolved(ts) == {i \in DOMAIN ts : ts[i].phase # "done"}

\* C11: dispatching never blocks the read path: in every state where the
\* worker holds a connection, however many dispatches are unresolved, the
\* read loop is ready to take the next line; and reading a report spawns
\* one more dispatch next to the unresolved ones, which it leaves as they
\* are, and leaves the worker reading (it does not wait for the new one).
C11_ReadNeverBlocked ==
    /\ [](pc = "reading" => ReadReady)
    /\ [][Len(tasks') > Len(tasks) =>
             /\ pc = "reading" /\ pc' = "reading"
             /\ DOMAIN tasks' = DOMAIN tasks \cup {Len(tasks) + 1}
             /\ \A i \in DOMAIN tasks : tasks'[i] = tasks[i]
             /\ Unresolved(tasks') = Unresolved(tasks) \cup {Len(tasks')}]_vars

\* The worker can read while two dispatches are unresolved, one of them
\* waiting for its HTTP response.
C11_Witness ==
    /\ pc = "reading"
    /\ events < MaxEvents
    /\ Cardinality(Unresolved(tasks)) >= 3
    /\ \E i \in DOMAIN tasks : tasks[i].phase = "posting"

\* What parse yields for a line that is no report.
NoEvent == [addr |-> <<>>, func |-> <<>>]
\* The tag stands at characters 15..22 (counted from 1: 16..23).
TagAt(text) == Len(text) >= 23 /\ SubSeq(text, 16, 23) = RxRfsec
\* The timestamp fields of the documented line and of another one.
Stamps == {SubSeq(LineContact, 1, 15), SubSeq(LineArm, 1, 15)}

\* C12: for the line the worker has parsed: without the tag at characters
\* 15..22 the result is none; with the tag and a function label present, the
\* address is characters 30..37 and the function is characters 45..end; and
\* the result is the same under any other timestamp field.
C12_ParseByFixedOffsets ==
    LET text == hist.line
        p == hist.parsed
    IN  /\ ~TagAt(text) => p = NoEvent
        /\ WellFormed(text) =>
               /\ p.addr = SubSeq(text, 31, 38)
               /\ p.func = SubSeq(text, 46, Len(text))
        /\ Len(text) >= 15 =>
               \A stamp \in Stamps :
                   parse_mochad_line(Restamp(text, stamp)) = p

\* The documented report under the other timestamp has been parsed to its
\* address and function, and spawned a dispatch.
C12_Witness ==
    /\ WellFormed(hist.line)
    /\ SubSeq(hist.line, 1, 15) = SubSeq(LineArm, 1, 15)
    /\ hist.parsed.addr = <<"2", "1", ":", "2", "6", ":", "8", "0">>
    /\ hist.parsed.func = SubSeq(LineContact, 46, 68)
    /\ Len(tasks) = 1
    /\ tasks[1].addr = hist.parsed.addr

\* C13: once the client is built, the stored base is the given entry point
\* if that ends with "/" and the given entry point plus one "/" otherwise;
\* normalising it again changes nothing; and every request goes to the base
\* followed directly by the address of its event.
C13_RequestTarget ==
    LET given == args_entry_point
        base == IF given[Len(given)] = "/" THEN given ELSE given \o <<"/">>
    IN  pc \notin {"main", "exit_config"} =>
            /\ entry_point = base
            /\ NormalizeEntryPoint(entry_point) = entry_point
            /\ \A i \in DOMAIN tasks :
                   \A k \in DOMAIN tasks[i].sent :
                       tasks[i].sent[k].url = base \o tasks[i].addr

\* A request went out for an entry point given without the final "/".
C13_Witness ==
    /\ args_entry_point = EpUpperNoSlash
    /\ \E i \in DOMAIN tasks :
           /\ Len(tasks[i].sent) = 1
           /\ tasks[i].sent[1].url =
                  EpUpperNoSlash \o <<"/">> \o tasks[i].addr

\* C14: no dispatch is abandoned: every dispatch that was spawned comes to an
\* outcome, also when the worker stops by reconnect exhaustion.  Nothing runs
\* once the worker has stopped (run_until_complete has returned and the
\* process ends), so the claim needs every dispatch to have its outcome by
\* then.
C14_NoDispatchAbandoned ==
    Exhausted => \A i \in DOMAIN tasks : tasks[i].phase = "done"

\* The dispatches that have run: they have taken their time.
Started(ts) == {i \in DOMAIN ts : ts[i].phase # "spawned"}

\* C15 as claimed: the time sent with an event is the clock reading at the
\* moment its line was parsed by the worker loop.
C15_Claimed ==
    \A i \in Started(tasks) : tasks[i].dispatch_time = tasks[i].spawned_at

\* C15: the time sent with an event is the clock reading at the moment its
\* dispatch first runs, which is not before its line was parsed; it is what
\* the request carries (formatted and encoded), it is taken once, and it is
\* a reading of the clock, never the timestamp field of the line.
C15_TimeTakenAtFirstRun ==
    /\ [](\A i \in Started(tasks) :
              /\ tasks[i].dispatch_time \in tasks[i].spawned_at..now
              /\ \A k \in DOMAIN tasks[i].sent :
                     tasks[i].sent[k].dispatch_time =
                         Quote(IsoFormat(tasks[i].dispatch_time)))
    /\ [][\A i \in DOMAIN tasks :
              IF i \in Started(tasks)
              THEN tasks'[i].dispatch_time = tasks[i].dispatch_time
              ELSE i \in Started(tasks') =>
                       tasks'[i].dispatch_time = now]_vars

\* A request carries a time later than the moment its line was parsed.
C15_Witness ==
    \E i \in Started(tasks) :
        /\ tasks[i].dispatch_time > tasks[i].spawned_at
        /\ Len(tasks[i].sent) = 1
        /\ tasks[i].sent[1].dispatch_time =
               Quote(IsoFormat(tasks[i].dispatch_time))

\* The line ends before the first character of a function label.
TooShort(text) == Len(text) < 46

\* C16 as claimed: a line too short to hold the tag, the full address and a
\* non-empty function label raises nothing, parses to none and spawns no
\* dispatch.
C16_Claimed ==
    TooShort(hist.line) =>
        /\ pc = "reading"
        /\ hist.parsed = NoEvent
        /\ tasks = <<>>

\* C16: a line too short to hold the tag, the full address and a non-empty
\* function label raises nothing and spawns no dispatch; it parses to an
\* empty function, and to an empty address too unless it carries the tag and
\* goes on into the address field: then the address is what the line holds
\* of characters 30..37.
C16_ShortLineNotDispatched ==
    LET text == hist.line
        p == hist.parsed
    IN  /\ pc = "reading"
        /\ exit_code = NoExit
        /\ TooShort(text) =>
               /\ tasks = <<>>
               /\ p.func = <<>>
               /\ p.addr = IF TagAt(text) /\ Len(text) >= 31
                           THEN SubSeq(text, 31, Min(38, Len(text)))
                           ELSE <<>>

\* A tagged line that ends inside the address field was read: it parsed to
\* a part of the address and spawned nothing.
C16_Witness ==
    /\ events = 1
    /\ TagAt(hist.line)
    /\ Len(hist.line) \in 31..37
    /\ hist.parsed.addr # <<>>
    /\ hist.parsed.func = <<>>
    /\ tasks = <<>>

\* The warnings logged since the last successful connection (since the
\* start when there was none), as places of the log.
Warnings == {WarnCouldNotConnect, WarnLostConnection}
LastConnected ==
    LET at == {i \in DOMAIN log : log[i] = InfoConnected}
    IN  IF at = {} THEN 0 ELSE CHOOSE i \in at : \A j \in at : j <= i
WarnedSinceConnected ==
    {i \in DOMAIN log : i > LastConnected /\ log[i] \in Warnings}

\* C17: one warning per failure episode: while an episode lasts (and after
\* it ended in the give-up) the log holds exactly one warning since the last
\* successful connection, "Could not connect" for an episode begun by a
\* failed attempt and "Lost connection" for one begun by a closed stream,
\* however many retries have failed; outside an episode it holds none.
C17_OneWarningPerEpisode ==
    IF hist.in_episode
    THEN \E i \in DOMAIN log :
             /\ WarnedSinceConnected = {i}
             /\ log[i] = IF hist.last_ok = 0 /\ LastConnected = 0
                         THEN WarnCouldNotConnect
                         ELSE WarnLostConnection
    ELSE WarnedSinceConnected = {}

\* After a closed stream a retry has failed as well, and the log holds the
\* one warning of the closure.
C17_Witness ==
    /\ hist.in_episode
    /\ hist.last_fail > hist.episode_start
    /\ log = <<InfoConnected, WarnLostConnection>>

\* C18: the reconnect clock is set exactly in failure episodes: it is unset
\* before the client runs, during the first connection attempt and whenever
\* the worker holds a connection (so before any line of that connection is
\* read); and it is set, to a reading of the clock, exactly from the first
\* failed attempt or the closed stream until the next successful connection.
C18_ClockSetExactlyInEpisodes ==
    /\ (reconnect_time # 0) <=> hist.in_episode
    /\ reconnect_time # 0 => reconnect_time \in StartTime..now
    /\ pc \in {"main", "exit_config", "reading"} => reconnect_time = 0
    /\ hist.attempts = 1 /\ pc = "connecting" => reconnect_time = 0
    /\ hist.in_episode <=>
           /\ hist.last_fail # 0
           /\ hist.last_fail >= hist.last_ok
           /\ pc \notin {"reading", "exit_exception"}

\* The worker holds a connection again after an episode that began with a
\* closed stream: the clock is unset while lines are read.
C18_Witness ==
    /\ pc = "reading"
    /\ reconnect_time = 0
    /\ \E k \in DOMAIN log : log[k] = WarnLostConnection
    /\ Last(log) = InfoConnected
    /\ hist.line # <<>>

\* C19: a failed connection attempt made while the reconnect clock is set
\* leaves the clock as it is; the clock changes only by the first failure of
\* an episode (from unset to the time of the failure), by a closed stream
\* (to the time of the closure) and by a successful connection (to unset).
C19_LaterFailureKeepsClock ==
    [][/\ (pc = "connecting" /\ reconnect_time # 0 /\ pc' # "reading")
              => reconnect_time' = reconnect_time
       /\ reconnect_time' # reconnect_time =>
              \/ /\ pc = "connecting" /\ pc' = "sleeping"
                 /\ reconnect_time = 0 /\ reconnect_time' = now
              \/ /\ pc = "reading" /\ pc' = "sleeping"
                 /\ reconnect_time' = now
              \/ /\ pc = "connecting" /\ pc' = "reading"
                 /\ reconnect_time' = 0]_vars

\* Two attempts of one episode have failed, the second later than the
\* first, and the clock still holds the time of the first.
C19_Witness ==
    /\ pc = "sleeping"
    /\ hist.in_episode
    /\ hist.last_ok = 0
    /\ hist.attempts >= 2
    /\ hist.last_fail > hist.episode_start
    /\ reconnect_time = hist.episode_start

\* How often the exhaustion error stands in the log.
ErrorCount ==
    Cardinality({i \in DOMAIN log : log[i] = ErrCouldNotReconnect})

\* C20: when every connection attempt fails, the worker does not retry for
\* ever: it makes no more attempts than one and a retry for each second of
\* the 60, it ends up stopped with the exhaustion error in its log once, and
\* the error is never logged a second time.
C20_GivesUpInTheEnd ==
    /\ [](hist.attempts <= ReconnectLimit \div SleepSecs + 1)
    /\ [](ErrorCount <= 1)
    /\ <>[](Exhausted /\ ErrorCount = 1 /\ Last(log) = ErrCouldNotReconnect)

\* The worker has stopped after three or more attempts, none of which ever
\* succeeded, with the one error as the last entry of its log.
C20_Witness ==
    /\ Exhausted
    /\ hist.last_ok = 0
    /\ hist.attempts >= 3
    /\ log = <<WarnCouldNotConnect, ErrCouldNotReconnect>>

=============================================================================
